---- MODULE Spec2Model ----
(***************************************************************************)
(* A model of mail-laser: the SMTP session handlers of src/smtp/mod.rs     *)
(* driving the protocol state machine of src/smtp/smtp_protocol.rs, and    *)
(* the webhook dispatcher actor of src/webhook/mod.rs.                     *)
(*                                                                         *)
(* Five specifications share the module's variables:                       *)
(*   SmtpSpec     one client connection: the plaintext session, the        *)
(*                STARTTLS handshake and the session on the TLS stream;    *)
(*   WebhookSpec  the WebhookState actor: its inbox, the ForwardEmail and  *)
(*                WebhookResult handlers, the retry loop and the clock;    *)
(*   MailboxSpec  the same actor with the capacity of its mailbox and the  *)
(*                fairness of its steps;                                   *)
(*   ParserSpec   one message through EmailParser::parse, the EmailPayload *)
(*                built from the result and its JSON form;                 *)
(*   ServerSpec   the accept loop of Server::run and the session tasks it  *)
(*                spawns, each seen from outside.                          *)
(***************************************************************************)
EXTENDS Integers, Sequences, FiniteSets, TLC

VARIABLES
    \* ---- one SMTP connection (src/smtp/mod.rs) ----
    phase,               \* "plain" (handle_connection) or "tls" (handle_secure_session)
    pc,                  \* "read" | "await_forward" | "handshake" | "closed"
    state,               \* SmtpProtocol.state
    sender,              \* let mut sender
    accepted_recipient,  \* let mut accepted_recipient
    email_data,          \* let mut email_data, one element per appended line
    collecting_data,     \* let mut collecting_data
    trace,               \* what handling the last line wrote / handed over, in order
    payloads,            \* every EmailPayload passed to webhook_client.forward_email
    http,                \* the session's WebhookClient request: "idle" | "inflight"
    ended,               \* how the session task returned: "" | "ok" | "err"
    nlines,              \* lines read on this connection so far
    any_accepted,        \* some RCPT TO of the running session passed the allow-list
    txn_rcpts,           \* addresses accepted by RCPT TO since the last MAIL FROM
    parse_result,        \* EmailParser::parse in the last step: "none" | "ok" | "err"
    handed,              \* payloads passed to forward_email in the last step
    eof,                 \* the client has closed the connection: every read returns ""
    lastLine,            \* the session step just taken, with the session before it
    stale,               \* envelope fields whose content was received before the TLS upgrade
    carried,             \* envelope fields whose content was received before the last end of data
    sent_body,           \* the body lines the client has sent since DATA, before dot-stuffing
    last_accepted,       \* the address of the last RCPT TO accepted since the last MAIL FROM
    \* ---- the webhook dispatcher actor (src/webhook/mod.rs) ----
    consecutive_failures,
    circuit_open,
    circuit_opened_at_ms,
    total_forwarded,
    total_failed,
    max_retries,
    circuit_threshold,
    circuit_reset_secs,
    inbox,               \* the actor's mailbox, FIFO
    dpc,                 \* "idle" | "attempt" | "send": where the delivery future is
    cur,                 \* id of the message whose delivery future is running
    attempt,             \* the retry loop's variable
    success,             \* the retry loop's flag
    backoff_ms,          \* the sleep before the last request (0: none)
    now,                 \* current_time_ms()
    submitted,           \* ForwardEmail messages sent to the actor so far
    httpCount,           \* HTTPS requests made so far
    respLog,             \* outcomes of the running delivery's requests ("ok"/"fail")
    okResponses,         \* 2xx responses received so far
    timesCounted,        \* per message id: how often a counter was bumped for it
    probeId,             \* id of the last message admitted by the half-open branch
    sequential,          \* every submission so far found the actor idle and its inbox empty
    last,                \* the dispatcher step just taken, with the state before it
    exited,              \* run() has returned and main has ended the process
    \* ---- one message through the parser and the serialiser ----
    mail,                \* the message as mailparse::parse_mail sees it
    parsed,              \* what EmailParser::parse returned
    payload,             \* the EmailPayload built from it
    json,                \* members of the JSON object serde_json::to_string wrote
    pstage,              \* "unused" | "raw" | "parsed" | "built" | "serialized"
    \* ---- the accept loop and its session tasks (Server::run) ----
    listening,           \* the loop of Server::run is running
    conns,               \* per connection: "none" | "running" | "ok" | "err" (task returned)
    answered,            \* per connection: commands answered so far
    accept_errors,       \* times listener.accept() returned Err
    born                 \* per connection: failures that had happened when it was accepted

smtpVars == <<phase, pc, state, sender, accepted_recipient, email_data,
              collecting_data, trace, payloads, http, ended, nlines,
              any_accepted, txn_rcpts, parse_result, handed, eof, lastLine,
              stale, carried, sent_body, last_accepted>>

hookVars == <<consecutive_failures, circuit_open, circuit_opened_at_ms,
              total_forwarded, total_failed, max_retries, circuit_threshold,
              circuit_reset_secs, inbox, dpc, cur, attempt, success, backoff_ms, now,
              submitted, httpCount, respLog, okResponses,
              timesCounted, probeId, sequential, last, exited>>

parserVars == <<mail, parsed, payload, json, pstage>>

serverVars == <<listening, conns, answered, accept_errors, born>>

vars == <<smtpVars, hookVars, parserVars, serverVars>>

----------------------------------------------------------------------------
(* Bounds of the model. *)

MaxLines == 10       \* lines read on the connection
MaxData == 2         \* lines kept in email_data
MaxSubmit == 4       \* ForwardEmail messages submitted
MaxRetriesCfg == 3   \* webhook_max_retries is 0 or MaxRetriesCfg
MaxThresholdCfg == 3 \* circuit_breaker_threshold is 1 or MaxThresholdCfg
MaxNow == 2000       \* the clock stops advancing here (ms)
MaxSubparts == 2     \* parts in a multipart/alternative container
InboxCapacity == 3   \* messages the actor's mailbox holds (scaled down)
MaxConns == 3        \* connections accepted
MaxCommands == 1     \* commands answered on one connection
MaxAcceptErrors == 1 \* times accept() fails
TickMs == 500        \* granularity of the clock (ms)
ResetSecsCfg == 1    \* circuit_breaker_reset_secs

----------------------------------------------------------------------------
(* Strings.  An address is a sequence of characters so that to_lowercase   *)
(* is computed, not assumed.                                               *)

None == <<>>

LowerChar(c) ==
    CASE c = "T" -> "t"
      [] c = "O" -> "o"
      [] c = "X" -> "x"
      [] OTHER -> c

to_lowercase(s) == [i \in DOMAIN s |-> LowerChar(s[i])]

\* Config.target_emails as loaded; the entry keeps the case it was written in.
target_emails == << <<"t", "X">> >>

\* Addresses a client may name in MAIL FROM / RCPT TO.
Addresses == { <<"t", "x">>, <<"T", "x">>, <<"o", "x">> }

Line(v, a) == [verb |-> v, arg |-> a]

\* line.to_uppercase() on the command verb.
to_uppercase(v) ==
    CASE v = "ehlo" -> "EHLO"
      [] v = "data" -> "DATA"
      [] OTHER -> v

\* Lines a client sends while the server expects commands.
CommandLines ==
    { Line(v, None) : v \in {"HELO", "EHLO", "ehlo", "STARTTLS", "DATA", "data",
                             "QUIT", "NOOP", ""} }
    \cup { Line("MAIL FROM:", a) : a \in {<<"o", "x">>, None} }
    \cup { Line("RCPT TO:", a) : a \in Addresses \cup {None} }

\* Lines of a message body, as the client means them.
BodyLines == {"text", ".text", "badmime", "QUIT", "STARTTLS", ""}

\* SMTP dot-stuffing by the client (RFC 5321 4.5.2): a body line that starts
\* with '.' is sent with one more '.' in front.
DotStuff(b) ==
    CASE b = ".text" -> "..text"
      [] OTHER -> b

\* Lines a client sends after DATA: the terminator, or a dot-stuffed body line.
DataLines ==
    { Line(".", None) } \cup { Line(DotStuff(b), None) : b \in BodyLines }

\* The body line a wire line stands for.
BodyOf(line) == CHOOSE b \in BodyLines : DotStuff(b) = line.verb

----------------------------------------------------------------------------
(* SmtpProtocol (src/smtp/smtp_protocol.rs).  process_command returns what  *)
(* it wrote, the state it left and the SmtpCommandResult.                  *)

R220Greeting == "220 MailLaser SMTP Server Ready"
R220GoAhead == "220 Go ahead"
R221 == "221 Bye"
R250Helo == "250 MailLaser"
R250EhloGreets == "250-MailLaser greets"
R250StartTls == "250 STARTTLS"
R250 == "250 OK"
R250Accepted == "250 OK: Message accepted for delivery"
R354 == "354 Start mail input; end with <CRLF>.<CRLF>"
R500 == "500 Command not recognized or out of sequence"
R501Mail == "501 Syntax error in MAIL FROM parameters"
R501Rcpt == "501 Syntax error in RCPT TO parameters"
R503Greeted == "503 Bad sequence of commands (expected MAIL FROM or STARTTLS)"
R503MailFrom == "503 Bad sequence of commands (expected RCPT TO)"
R503RcptTo == "503 Bad sequence of commands (expected DATA or RCPT TO)"
R503NoEnvelope == "503 Bad sequence of commands (MAIL FROM and RCPT TO required first)"
R503TlsActive == "503 STARTTLS already active"
R550 == "550 No such user here"

\* The marker put in trace when a payload is passed to forward_email.
Handoff == "HANDOFF"

Outcome(w, st, res, val) == [wrote |-> w, state |-> st, result |-> res, value |-> val]

\* extract_email: Some(address) when the parameter parses, None otherwise.
extract_email(line) == IF line.arg \in Addresses THEN line.arg ELSE None

ProcessInitial(line) ==
    LET upper_line == to_uppercase(line.verb) IN
    IF upper_line = "HELO"
      THEN Outcome(<<R250Helo>>, "Greeted", "Continue", None)
    ELSE IF upper_line = "EHLO"
      THEN Outcome(<<R250EhloGreets, R250StartTls>>, "Greeted", "Continue", None)
    ELSE IF upper_line = "QUIT"
      THEN Outcome(<<R221>>, "Initial", "Quit", None)
    ELSE Outcome(<<R500>>, "Initial", "Continue", None)

ProcessGreeted(line) ==
    LET upper_line == to_uppercase(line.verb) IN
    IF upper_line = "MAIL FROM:"
      THEN IF extract_email(line) # None
             THEN Outcome(<<R250>>, "MailFrom", "MailFrom", extract_email(line))
             ELSE Outcome(<<R501Mail>>, "Greeted", "Continue", None)
    ELSE IF upper_line = "STARTTLS"
      THEN Outcome(<<R220GoAhead>>, "Greeted", "StartTls", None)
    ELSE IF upper_line = "QUIT"
      THEN Outcome(<<R221>>, "Greeted", "Quit", None)
    ELSE Outcome(<<R503Greeted>>, "Greeted", "Continue", None)

ProcessMailFrom(line) ==
    LET upper_line == to_uppercase(line.verb) IN
    IF upper_line = "RCPT TO:"
      THEN IF extract_email(line) # None
             THEN Outcome(<<>>, "RcptTo", "RcptTo", extract_email(line))
             ELSE Outcome(<<R501Rcpt>>, "MailFrom", "Continue", None)
    ELSE IF upper_line = "QUIT"
      THEN Outcome(<<R221>>, "MailFrom", "Quit", None)
    ELSE Outcome(<<R503MailFrom>>, "MailFrom", "Continue", None)

\* A variant whose RcptTo arm takes STARTTLS as the Greeted arm does.
ProcessRcptToStartTls(line) ==
    LET upper_line == to_uppercase(line.verb) IN
    IF upper_line = "DATA"
      THEN Outcome(<<R354>>, "Data", "DataStart", None)
    ELSE IF upper_line = "RCPT TO:"
      THEN IF extract_email(line) # None
             THEN Outcome(<<>>, "RcptTo", "RcptTo", extract_email(line))
             ELSE Outcome(<<R501Rcpt>>, "RcptTo", "Continue", None)
    ELSE IF upper_line = "STARTTLS"
      THEN Outcome(<<R220GoAhead>>, "RcptTo", "StartTls", None)
    ELSE IF upper_line = "QUIT"
      THEN Outcome(<<R221>>, "RcptTo", "Quit", None)
    ELSE Outcome(<<R503RcptTo>>, "RcptTo", "Continue", None)

ProcessRcptTo(line) ==
    LET upper_line == to_uppercase(line.verb) IN
    IF upper_line = "DATA"
      THEN Outcome(<<R354>>, "Data", "DataStart", None)
    ELSE IF upper_line = "RCPT TO:"
      THEN IF extract_email(line) # None
             THEN Outcome(<<>>, "RcptTo", "RcptTo", extract_email(line))
             ELSE Outcome(<<R501Rcpt>>, "RcptTo", "Continue", None)
    ELSE IF upper_line = "QUIT"
      THEN Outcome(<<R221>>, "RcptTo", "Quit", None)
    ELSE Outcome(<<R503RcptTo>>, "RcptTo", "Continue", None)

\* A variant that leaves the reply to '.' to the caller, as the RcptTo arms do.
ProcessDataDeferredReply(line) ==
    IF line.verb = "."
      THEN Outcome(<<>>, "Greeted", "DataEnd", None)
      ELSE Outcome(<<>>, "Data", "DataLine", line)

\* A variant that takes QUIT as a command while in Data.
ProcessDataQuit(line) ==
    IF line.verb = "."
      THEN Outcome(<<R250Accepted>>, "Greeted", "DataEnd", None)
    ELSE IF line.verb = "QUIT"
      THEN Outcome(<<R221>>, "Data", "Quit", None)
    ELSE Outcome(<<>>, "Data", "DataLine", line)

\* A variant that goes back to Initial after the end-of-data line.
ProcessDataToInitial(line) ==
    IF line.verb = "."
      THEN Outcome(<<R250Accepted>>, "Initial", "DataEnd", None)
      ELSE Outcome(<<>>, "Data", "DataLine", line)

ProcessData(line) ==
    IF line.verb = "."
      THEN Outcome(<<R250Accepted>>, "Greeted", "DataEnd", None)
      ELSE Outcome(<<>>, "Data", "DataLine", line)

process_command(st, line) ==
    CASE st = "Initial" -> ProcessInitial(line)
      [] st = "Greeted" -> ProcessGreeted(line)
      [] st = "MailFrom" -> ProcessMailFrom(line)
      [] st = "RcptTo" -> ProcessRcptTo(line)
      [] st = "Data" -> ProcessData(line)

\* target_emails.iter().any(|target| target.to_lowercase() == received_email_lower)
Allowed(received_email) ==
    \E i \in DOMAIN target_emails :
        to_lowercase(target_emails[i]) = to_lowercase(received_email)

\* EmailParser::parse: Err when mailparse rejects the message, Ok otherwise.
ParseOk(data) == \A i \in DOMAIN data : data[i].verb # "badmime"

EmailPayload(s, r, d) == [sender |-> s, recipient |-> r, data |-> d]

\* A variant without the end-of-stream test: every line goes to process_command.
EndOfStreamIgnored(st, line) == FALSE

\* if protocol.get_state() != SmtpState::Data && line.is_empty()
EndOfStream(st, line) == st # "Data" /\ line.verb = ""

\* What a client may send next, given the protocol state; the data buffer is
\* kept within MaxData lines.
\* Once the client has closed the connection read_line returns "".
Inputs ==
    LET open == IF state = "Data"
                  THEN { l \in DataLines :
                           l.verb = "." \/ ~collecting_data
                             \/ Len(email_data) < MaxData }
                  ELSE CommandLines
    IN IF eof THEN { l \in open : l.verb = "" } ELSE open

----------------------------------------------------------------------------
(* The session handlers (src/smtp/mod.rs).                                 *)

\* The dispatcher's fields and the clock, as a record.
Snapshot ==
    [consecutive_failures |-> consecutive_failures,
     circuit_open |-> circuit_open,
     circuit_opened_at_ms |-> circuit_opened_at_ms,
     total_forwarded |-> total_forwarded,
     total_failed |-> total_failed,
     httpCount |-> httpCount,
     now |-> now]

Step(op, id, ok) == [op |-> op, id |-> id, ok |-> ok, pre |-> Snapshot]

\* The session's protocol state and envelope, as a record.
SessionSnapshot ==
    [phase |-> phase,
     state |-> state,
     sender |-> sender,
     accepted_recipient |-> accepted_recipient,
     email_data |-> email_data,
     collecting_data |-> collecting_data]

LineStep(line) == [op |-> "line", line |-> line, pre |-> SessionSnapshot]

OtherStep(op) == [op |-> op, line |-> Line("", None), pre |-> SessionSnapshot]

\* No message is being parsed.
ParserUnused ==
    /\ mail = <<>>
    /\ parsed = <<>>
    /\ payload = <<>>
    /\ json = {}
    /\ pstage = "unused"

Conns == 1..MaxConns

\* No listener is bound.
ServerUnused ==
    /\ listening = FALSE
    /\ conns = [i \in Conns |-> "none"]
    /\ answered = [i \in Conns |-> 0]
    /\ accept_errors = 0
    /\ born = [i \in Conns |-> 0]

HookIdle ==
    /\ consecutive_failures = 0
    /\ circuit_open = FALSE
    /\ circuit_opened_at_ms = 0
    /\ total_forwarded = 0
    /\ total_failed = 0
    /\ inbox = <<>>
    /\ dpc = "idle"
    /\ cur = 0
    /\ attempt = 0
    /\ success = FALSE
    /\ backoff_ms = 0
    /\ now = 0
    /\ submitted = 0
    /\ httpCount = 0
    /\ respLog = <<>>
    /\ okResponses = 0
    /\ timesCounted = [i \in 1..MaxSubmit |-> 0]
    /\ probeId = 0
    /\ sequential = TRUE
    /\ last = Step("init", 0, FALSE)
    /\ exited = FALSE

\* handle_connection up to its first read: fresh envelope, SmtpProtocol::new,
\* send_greeting.
SessionStart ==
    /\ phase = "plain"
    /\ pc = "read"
    /\ state = "Initial"
    /\ sender = None
    /\ accepted_recipient = None
    /\ email_data = <<>>
    /\ collecting_data = FALSE
    /\ trace = <<R220Greeting>>
    /\ payloads = <<>>
    /\ http = "idle"
    /\ ended = ""
    /\ nlines = 0
    /\ any_accepted = FALSE
    /\ txn_rcpts = {}
    /\ parse_result = "none"
    /\ handed = 0
    /\ eof = FALSE
    /\ lastLine = OtherStep("start")
    /\ stale = {}
    /\ carried = {}
    /\ sent_body = <<>>
    /\ last_accepted = None

SmtpInit ==
    /\ SessionStart
    /\ HookIdle
    /\ ParserUnused
    /\ ServerUnused
    /\ max_retries = 0
    /\ circuit_threshold = 1
    /\ circuit_reset_secs = 1

\* The session task returns: Ok(()) or Err.
Close(how, wrote) ==
    /\ pc' = "closed"
    /\ ended' = how
    /\ trace' = wrote
    /\ UNCHANGED <<phase, sender, accepted_recipient, email_data,
                   collecting_data, payloads, http>>

\* A variant that also keeps the address in the message buffer.
OnRcptToBuffered(o) ==
    /\ IF Allowed(o.value)
         THEN /\ accepted_recipient' = o.value
              /\ trace' = o.wrote \o <<R250>>
         ELSE /\ accepted_recipient' = None
              /\ trace' = o.wrote \o <<R550>>
    /\ email_data' = Append(email_data, Line("RCPT TO:", o.value))
    /\ UNCHANGED <<phase, pc, sender, collecting_data, payloads, http, ended>>

\* The RcptTo arm, the same in both handlers.
OnRcptTo(o) ==
    /\ IF Allowed(o.value)
         THEN /\ accepted_recipient' = o.value
              /\ trace' = o.wrote \o <<R250>>
         ELSE /\ accepted_recipient' = None
              /\ trace' = o.wrote \o <<R550>>
    /\ UNCHANGED <<phase, pc, sender, email_data, collecting_data, payloads,
                   http, ended>>

OnDataLine(o) ==
    /\ email_data' = IF collecting_data THEN Append(email_data, o.value)
                                         ELSE email_data
    /\ trace' = o.wrote
    /\ UNCHANGED <<phase, pc, sender, accepted_recipient, collecting_data,
                   payloads, http, ended>>

\* A variant that forwards the payload twice.
ForwardTwice(o) ==
    /\ payloads' = payloads \o
                      << EmailPayload(sender, accepted_recipient, email_data),
                         EmailPayload(sender, accepted_recipient, email_data) >>
    /\ trace' = o.wrote \o <<Handoff, Handoff>>
    /\ http' = "inflight"
    /\ pc' = "await_forward"
    /\ collecting_data' = FALSE
    /\ UNCHANGED <<phase, sender, accepted_recipient, email_data, ended>>

\* The payload is built and webhook_client.forward_email(payload) is awaited:
\* the session stays at that await until the request has finished.
Forward(o) ==
    /\ payloads' = Append(payloads,
                          EmailPayload(sender, accepted_recipient, email_data))
    /\ trace' = o.wrote \o <<Handoff>>
    /\ http' = "inflight"
    /\ pc' = "await_forward"
    /\ collecting_data' = FALSE
    /\ UNCHANGED <<phase, sender, accepted_recipient, email_data, ended>>

\* A variant that leaves the sender in place.
ResetEnvelopeKeepsSender ==
    /\ sender' = sender
    /\ accepted_recipient' = None
    /\ email_data' = <<>>

\* sender.clear(); accepted_recipient.clear(); email_data.clear()
ResetEnvelope ==
    /\ sender' = None
    /\ accepted_recipient' = None
    /\ email_data' = <<>>

\* The DataEnd arm of handle_connection: skip when the envelope is incomplete,
\* else parse and forward, or log the parse error.
DataEndPlain ==
    IF sender = None \/ accepted_recipient = None THEN "skip"
    ELSE IF ParseOk(email_data) THEN "forward"
    ELSE "parse_err"

\* The DataEnd arm of handle_secure_session: parse(...)? and forward.
DataEndTls == IF ParseOk(email_data) THEN "forward" ELSE "parse_err"

\* The envelope fields that hold something, given their values.
HeldFields(s, r, d) ==
    (IF s # None THEN {"sender"} ELSE {})
      \cup (IF r # None THEN {"recipient"} ELSE {})
      \cup (IF d # <<>> THEN {"data"} ELSE {})

\* Of the given fields, those that the step with outcome o neither assigned
\* nor left empty; s, r, d are the envelope after the step.
Outlived(fields, o, s, r, d) ==
    { f \in fields \cap HeldFields(s, r, d) :
        /\ f = "sender" => o.result # "MailFrom"
        /\ f = "recipient" => o.result # "RcptTo"
        /\ f = "data" => o.result # "DataStart" }

\* Bookkeeping for the properties: it records what the handlers did and changes
\* nothing they read.
Observe(o, decision) ==
    /\ any_accepted' = (any_accepted \/ (o.result = "RcptTo" /\ Allowed(o.value)))
    /\ txn_rcpts' = IF o.result = "MailFrom" THEN {}
                    ELSE IF o.result = "RcptTo" /\ Allowed(o.value)
                      THEN txn_rcpts \cup {o.value}
                    ELSE txn_rcpts
    /\ parse_result' = IF o.result # "DataEnd" \/ decision = "skip" THEN "none"
                       ELSE IF decision = "forward" THEN "ok"
                       ELSE "err"
    /\ handed' = Len(payloads') - Len(payloads)
    /\ stale' = Outlived(stale, o, sender', accepted_recipient', email_data')
    /\ carried' = IF o.result = "DataEnd" /\ decision # "forward"
                    THEN HeldFields(sender', accepted_recipient', email_data')
                    ELSE Outlived(carried, o, sender', accepted_recipient',
                                  email_data')
    /\ sent_body' = IF o.result = "DataStart" THEN <<>>
                     ELSE IF o.result = "DataLine" /\ collecting_data /\ ~eof
                       THEN Append(sent_body, BodyOf(o.value))
                     ELSE sent_body
    /\ last_accepted' = IF o.result = "MailFrom" THEN None
                        ELSE IF o.result = "RcptTo" /\ Allowed(o.value)
                          THEN o.value
                        ELSE last_accepted

ObserveNothing ==
    /\ parse_result' = "none"
    /\ handed' = 0
    /\ UNCHANGED <<any_accepted, txn_rcpts, stale, carried, sent_body,
                   last_accepted>>

\* handle_connection: one turn of the loop on the plaintext stream.
PlainLine(line) ==
    /\ phase = "plain" /\ pc = "read"
    /\ nlines < MaxLines
    /\ line \in Inputs
    /\ nlines' = nlines + 1
    /\ lastLine' = LineStep(line)
    /\ UNCHANGED eof
    /\ IF EndOfStream(state, line)
         THEN Close("ok", <<>>) /\ state' = state /\ ObserveNothing
         ELSE
           LET o == process_command(state, line) IN
           /\ state' = o.state
           /\ CASE o.result = "StartTls" ->
                     /\ pc' = "handshake"
                     /\ trace' = o.wrote
                     /\ UNCHANGED <<phase, sender, accepted_recipient, email_data,
                                    collecting_data, payloads, http, ended>>
                [] o.result = "Quit" -> Close("ok", o.wrote)
                [] o.result = "MailFrom" ->
                     /\ sender' = o.value
                     /\ trace' = o.wrote
                     /\ UNCHANGED <<phase, pc, accepted_recipient, email_data,
                                    collecting_data, payloads, http, ended>>
                [] o.result = "RcptTo" -> OnRcptTo(o)
                [] o.result = "DataStart" ->
                     IF sender = None \/ accepted_recipient = None
                       THEN /\ trace' = o.wrote \o <<R503NoEnvelope>>
                            /\ UNCHANGED <<phase, pc, sender, accepted_recipient,
                                           email_data, collecting_data, payloads,
                                           http, ended>>
                       ELSE /\ collecting_data' = TRUE
                            /\ email_data' = <<>>
                            /\ trace' = o.wrote
                            /\ UNCHANGED <<phase, pc, sender, accepted_recipient,
                                           payloads, http, ended>>
                [] o.result = "DataLine" -> OnDataLine(o)
                [] o.result = "DataEnd" ->
                     IF DataEndPlain = "forward"
                       THEN Forward(o)
                       ELSE /\ collecting_data' = FALSE
                            /\ ResetEnvelope
                            /\ trace' = o.wrote
                            /\ UNCHANGED <<phase, pc, payloads, http, ended>>
                [] o.result = "Continue" ->
                     /\ trace' = o.wrote
                     /\ UNCHANGED <<phase, pc, sender, accepted_recipient,
                                    email_data, collecting_data, payloads, http,
                                    ended>>
           /\ Observe(o, DataEndPlain)
    /\ UNCHANGED <<hookVars, parserVars, serverVars>>

\* handle_secure_session: one turn of the loop on the TLS stream.
TlsLine(line) ==
    /\ phase = "tls" /\ pc = "read"
    /\ nlines < MaxLines
    /\ line \in Inputs
    /\ nlines' = nlines + 1
    /\ lastLine' = LineStep(line)
    /\ UNCHANGED eof
    /\ IF EndOfStream(state, line)
         THEN Close("ok", <<>>) /\ state' = state /\ ObserveNothing
         ELSE
           LET o == process_command(state, line) IN
           /\ state' = o.state
           /\ CASE o.result = "Quit" -> Close("ok", o.wrote)
                [] o.result = "MailFrom" ->
                     /\ sender' = o.value
                     /\ trace' = o.wrote
                     /\ UNCHANGED <<phase, pc, accepted_recipient, email_data,
                                    collecting_data, payloads, http, ended>>
                [] o.result = "RcptTo" -> OnRcptTo(o)
                [] o.result = "DataStart" ->
                     /\ collecting_data' = TRUE
                     /\ email_data' = <<>>
                     /\ trace' = o.wrote
                     /\ UNCHANGED <<phase, pc, sender, accepted_recipient,
                                    payloads, http, ended>>
                [] o.result = "DataLine" -> OnDataLine(o)
                [] o.result = "DataEnd" ->
                     IF DataEndTls = "forward"
                       THEN Forward(o)
                       ELSE /\ collecting_data' = FALSE
                            /\ Close("err", o.wrote)
                [] o.result = "Continue" ->
                     /\ trace' = o.wrote
                     /\ UNCHANGED <<phase, pc, sender, accepted_recipient,
                                    email_data, collecting_data, payloads, http,
                                    ended>>
                [] o.result = "StartTls" ->
                     /\ trace' = o.wrote \o <<R503TlsActive>>
                     /\ UNCHANGED <<phase, pc, sender, accepted_recipient,
                                    email_data, collecting_data, payloads, http,
                                    ended>>
           /\ Observe(o, DataEndTls)
    /\ UNCHANGED <<hookVars, parserVars, serverVars>>

\* A variant in which a failed delivery is answered with an error reply and
\* ends the session.
ForwardDoneFailFast(ok) ==
    /\ pc = "await_forward"
    /\ http' = "idle"
    /\ pc' = IF ok THEN "read" ELSE "closed"
    /\ ended' = IF ok THEN ended ELSE "err"
    /\ trace' = IF ok THEN trace ELSE <<"451 Requested action aborted">>
    /\ ResetEnvelope
    /\ stale' = {}
    /\ carried' = HeldFields(sender', accepted_recipient', email_data')
    /\ lastLine' = OtherStep(IF ok THEN "forward_ok" ELSE "forward_err")
    /\ UNCHANGED <<phase, state, collecting_data, payloads, nlines,
                   any_accepted, txn_rcpts, parse_result, handed, eof, sent_body,
                   last_accepted>>
    /\ UNCHANGED <<hookVars, parserVars, serverVars>>

\* forward_email returns (Ok, or Err which is only logged); the handler then
\* clears the envelope and goes back to reading.
ForwardDone(ok) ==
    /\ pc = "await_forward"
    /\ http' = "idle"
    /\ pc' = "read"
    /\ ResetEnvelope
    /\ stale' = {}
    /\ carried' = HeldFields(sender', accepted_recipient', email_data')
    /\ lastLine' = OtherStep(IF ok THEN "forward_ok" ELSE "forward_err")
    /\ UNCHANGED <<phase, state, collecting_data, trace, payloads, ended, nlines,
                   any_accepted, txn_rcpts, parse_result, handed, eof, sent_body,
                   last_accepted>>
    /\ UNCHANGED <<hookVars, parserVars, serverVars>>

\* A variant in which the session on the TLS stream resumes where the
\* plaintext session stood.
SecureSessionStateKept == "Greeted"

\* SmtpProtocol::new(reader, writer) in handle_secure_session
SecureSessionState == "Initial"

\* handle_starttls: acceptor.accept(stream) succeeds and handle_secure_session
\* starts (new SmtpProtocol, new envelope), or fails and the task returns Err.
\* The handshake cannot succeed on a connection the client has closed.
Handshake(ok) ==
    /\ pc = "handshake"
    /\ ok => ~eof
    /\ lastLine' = OtherStep(IF ok THEN "handshake" ELSE "handshake_failed")
    /\ IF ok
         THEN /\ phase' = "tls"
              /\ pc' = "read"
              /\ state' = SecureSessionState
              /\ sender' = None
              /\ accepted_recipient' = None
              /\ email_data' = <<>>
              /\ collecting_data' = FALSE
              /\ trace' = <<>>
              /\ any_accepted' = FALSE
              /\ txn_rcpts' = {}
              /\ stale' = (IF sender' # None THEN {"sender"} ELSE {})
                             \cup (IF accepted_recipient' # None
                                     THEN {"recipient"} ELSE {})
                             \cup (IF email_data' # <<>> THEN {"data"} ELSE {})
              /\ carried' = {}
              /\ sent_body' = <<>>
              /\ last_accepted' = None
              /\ UNCHANGED <<payloads, http, ended>>
         ELSE /\ Close("err", <<>>)
              /\ UNCHANGED <<state, any_accepted, txn_rcpts, stale, carried,
                             sent_body, last_accepted>>
    /\ parse_result' = "none"
    /\ handed' = 0
    /\ UNCHANGED <<nlines, eof>>
    /\ UNCHANGED <<hookVars, parserVars, serverVars>>

\* read_line or write_line fails (`?`): the task returns Err.
StreamError ==
    /\ pc = "read"
    /\ Close("err", <<>>)
    /\ ObserveNothing
    /\ lastLine' = OtherStep("stream_error")
    /\ UNCHANGED <<state, nlines, eof>>
    /\ UNCHANGED <<hookVars, parserVars, serverVars>>

\* The client closes the connection; the session learns of it at its next read.
ClientCloses ==
    /\ pc # "closed"
    /\ ~eof
    /\ eof' = TRUE
    /\ UNCHANGED <<phase, pc, state, sender, accepted_recipient, email_data,
                   collecting_data, trace, payloads, http, ended, nlines,
                   any_accepted, txn_rcpts, parse_result, handed, lastLine, stale,
                   carried, sent_body, last_accepted>>
    /\ UNCHANGED <<hookVars, parserVars, serverVars>>

SmtpNext ==
    \/ \E line \in CommandLines \cup DataLines : PlainLine(line)
    \/ \E line \in CommandLines \cup DataLines : TlsLine(line)
    \/ \E ok \in BOOLEAN : ForwardDone(ok)
    \/ \E ok \in BOOLEAN : Handshake(ok)
    \/ StreamError
    \/ ClientCloses

SmtpSpec == SmtpInit /\ [][SmtpNext]_vars

----------------------------------------------------------------------------
(* The webhook dispatcher (src/webhook/mod.rs).  The actor takes one        *)
(* message at a time from its inbox; a mutate_on handler's future is       *)
(* awaited before the next message is taken, so the delivery future of a   *)
(* ForwardEmail runs to its self-addressed WebhookResult before any other  *)
(* handler runs.                                                           *)

MsPerSec == 1000
BackoffBaseMs == 100

SessionUnused ==
    /\ SessionStart

WebhookInit ==
    /\ SessionUnused
    /\ HookIdle
    /\ ParserUnused
    /\ ServerUnused
    /\ max_retries \in {0, MaxRetriesCfg}
    /\ circuit_threshold \in {1, MaxThresholdCfg}
    /\ circuit_reset_secs = ResetSecsCfg

Pow2(n) == IF n <= 0 THEN 1 ELSE 2 ^ n

\* Outcomes of one HTTPS request under tokio::time::timeout.
Responses == {"2xx", "non2xx", "transport", "timeout"}

ForwardEmailMsg(id) == [type |-> "ForwardEmail", id |-> id, success |-> FALSE]
WebhookResultMsg(id, ok) == [type |-> "WebhookResult", id |-> id, success |-> ok]

\* A variant that compares milliseconds with seconds.
ResetElapsedUnscaled(elapsed) == elapsed > circuit_reset_secs

\* if elapsed > actor.model.circuit_reset_secs * 1000
ResetElapsed(elapsed) == elapsed > circuit_reset_secs * MsPerSec

\* A variant whose range runs one pass too far.
LoopContinuesOneMore(a) == a <= max_retries + 1

\* for attempt in 0..=max_retries
LoopContinues(a) == a <= max_retries

\* A variant with a strict comparison.
ThresholdExceeded(failures) == failures > circuit_threshold

\* if actor.model.consecutive_failures >= actor.model.circuit_threshold
ThresholdReached(failures) == failures >= circuit_threshold

\* A variant that does not count a dropped message.
DropNotCounted(failed) == failed

\* A variant that counts a dropped message as a delivery that used its retries.
DropCountedPerAttempt(failed) == failed + 1 + max_retries

\* actor.model.total_failed += 1 in the "Circuit breaker OPEN" branch
DropCounted(failed) == failed + 1

Counted(id) == [timesCounted EXCEPT ![id] = @ + 1]

\* A variant that leaves the count of consecutive failures as it is.
AfterSuccessKept(failures) == failures

\* actor.model.consecutive_failures = 0
AfterSuccess(failures) == 0

\* A variant that counts every failed request of the delivery.
AfterFailurePerRequest(failures) == failures + 1 + max_retries

\* actor.model.consecutive_failures += 1
AfterFailure(failures) == failures + 1

\* A variant whose exponent is the attempt number.
BackoffDoubled(n) == BackoffBaseMs * Pow2(n)

\* let backoff_ms = 100 * 2u64.pow(attempt - 1)
Backoff(n) == BackoffBaseMs * Pow2(n - 1)

\* handle.send(ForwardEmail { payload }) by a client of the actor.
Submit ==
    /\ ~exited
    /\ submitted < MaxSubmit
    /\ submitted' = submitted + 1
    /\ inbox' = Append(inbox, ForwardEmailMsg(submitted + 1))
    /\ sequential' = (sequential /\ inbox = <<>> /\ dpc = "idle")
    /\ last' = Step("submit", submitted + 1, FALSE)
    /\ UNCHANGED <<consecutive_failures, circuit_open, circuit_opened_at_ms,
                   total_forwarded, total_failed, max_retries, circuit_threshold,
                   circuit_reset_secs, dpc, cur, attempt, success, backoff_ms, now,
                   httpCount, respLog, okResponses, timesCounted,
                   probeId>>
    /\ UNCHANGED <<smtpVars, exited, parserVars, serverVars>>

\* The delivery future starts: the first pass of the retry loop, if any.
StartDelivery(id) ==
    /\ cur' = id
    /\ attempt' = 0
    /\ success' = FALSE
    /\ respLog' = <<>>
    /\ backoff_ms' = 0
    /\ dpc' = IF LoopContinues(0) THEN "attempt" ELSE "send"

\* mutate_on::<ForwardEmail>: the circuit breaker check, then Reply::ready()
\* (dropped) or Reply::pending(delivery future).
HandleForwardEmail ==
    /\ ~exited
    /\ dpc = "idle"
    /\ inbox # <<>>
    /\ Head(inbox).type = "ForwardEmail"
    /\ inbox' = Tail(inbox)
    /\ LET id == Head(inbox).id
           elapsed == now - circuit_opened_at_ms
       IN
       IF circuit_open
         THEN IF ResetElapsed(elapsed)
                THEN /\ circuit_open' = FALSE
                     /\ consecutive_failures' = 0
                     /\ probeId' = id
                     /\ StartDelivery(id)
                     /\ last' = Step("half_open", id, FALSE)
                     /\ UNCHANGED <<total_failed, timesCounted>>
                ELSE /\ total_failed' = DropCounted(total_failed)
                     /\ timesCounted' = Counted(id)
                     /\ last' = Step("drop", id, FALSE)
                     /\ UNCHANGED <<circuit_open, consecutive_failures, probeId,
                                    dpc, cur, attempt, success, respLog,
                                    backoff_ms>>
         ELSE /\ StartDelivery(id)
              /\ last' = Step("admit", id, FALSE)
              /\ UNCHANGED <<circuit_open, consecutive_failures, probeId,
                             total_failed, timesCounted>>
    /\ UNCHANGED <<circuit_opened_at_ms, total_forwarded, max_retries,
                   circuit_threshold, circuit_reset_secs, now, submitted,
                   httpCount, okResponses, sequential>>
    /\ UNCHANGED <<smtpVars, exited, parserVars, serverVars>>

\* One pass of the retry loop: the backoff sleep (attempt > 0), the request
\* under its timeout, and the match on its result.
Attempt(resp) ==
    /\ ~exited
    /\ dpc = "attempt"
    /\ backoff_ms' = IF attempt > 0 THEN Backoff(attempt) ELSE 0
    /\ httpCount' = httpCount + 1
    /\ respLog' = Append(respLog, IF resp = "2xx" THEN "ok" ELSE "fail")
    /\ okResponses' = okResponses + (IF resp = "2xx" THEN 1 ELSE 0)
    /\ IF resp = "2xx"
         THEN /\ success' = TRUE
              /\ dpc' = "send"
              /\ UNCHANGED attempt
         ELSE /\ UNCHANGED success
              /\ IF LoopContinues(attempt + 1)
                   THEN attempt' = attempt + 1 /\ UNCHANGED dpc
                   ELSE dpc' = "send" /\ UNCHANGED attempt
    /\ last' = Step("attempt", cur, resp = "2xx")
    /\ UNCHANGED <<consecutive_failures, circuit_open, circuit_opened_at_ms,
                   total_forwarded, total_failed, max_retries, circuit_threshold,
                   circuit_reset_secs, inbox, cur, now, submitted, timesCounted,
                   probeId, sequential>>
    /\ UNCHANGED <<smtpVars, exited, parserVars, serverVars>>

\* self_handle.send(WebhookResult { success, sender_info }).await
SendResult ==
    /\ ~exited
    /\ dpc = "send"
    /\ inbox' = Append(inbox, WebhookResultMsg(cur, success))
    /\ dpc' = "idle"
    /\ last' = Step("send", cur, success)
    /\ UNCHANGED <<consecutive_failures, circuit_open, circuit_opened_at_ms,
                   total_forwarded, total_failed, max_retries, circuit_threshold,
                   circuit_reset_secs, cur, attempt, success, backoff_ms, now,
                   submitted, httpCount, respLog, okResponses,
                   timesCounted, probeId, sequential>>
    /\ UNCHANGED <<smtpVars, exited, parserVars, serverVars>>

\* mutate_on::<WebhookResult>
HandleWebhookResult ==
    /\ ~exited
    /\ dpc = "idle"
    /\ inbox # <<>>
    /\ Head(inbox).type = "WebhookResult"
    /\ inbox' = Tail(inbox)
    /\ LET result == Head(inbox) IN
       /\ IF result.success
            THEN /\ consecutive_failures' = AfterSuccess(consecutive_failures)
                 /\ total_forwarded' = total_forwarded + 1
                 /\ UNCHANGED <<total_failed, circuit_open, circuit_opened_at_ms>>
            ELSE /\ consecutive_failures' = AfterFailure(consecutive_failures)
                 /\ total_failed' = total_failed + 1
                 /\ IF ThresholdReached(AfterFailure(consecutive_failures))
                      THEN /\ circuit_open' = TRUE
                           /\ circuit_opened_at_ms' = now
                      ELSE UNCHANGED <<circuit_open, circuit_opened_at_ms>>
                 /\ UNCHANGED total_forwarded
       /\ timesCounted' = Counted(result.id)
       /\ last' = Step("result", result.id, result.success)
    /\ UNCHANGED <<max_retries, circuit_threshold, circuit_reset_secs, dpc, cur,
                   attempt, success, backoff_ms, now, submitted, httpCount,
                   respLog, okResponses, probeId, sequential>>
    /\ UNCHANGED <<smtpVars, exited, parserVars, serverVars>>

\* Time passes.
Tick ==
    /\ ~exited
    /\ now < MaxNow
    /\ now' = now + TickMs
    /\ last' = Step("tick", 0, FALSE)
    /\ UNCHANGED <<consecutive_failures, circuit_open, circuit_opened_at_ms,
                   total_forwarded, total_failed, max_retries, circuit_threshold,
                   circuit_reset_secs, inbox, dpc, cur, attempt, success,
                   backoff_ms, submitted, httpCount, respLog,
                   okResponses, timesCounted, probeId, sequential>>
    /\ UNCHANGED <<smtpVars, exited, parserVars, serverVars>>

\* run() returns as soon as one of the two server tasks ends, always with Err,
\* and main then calls std::process::exit(1): every task of the process ends
\* where it stands.
Exit ==
    /\ ~exited
    /\ exited' = TRUE
    /\ last' = Step("exit", 0, FALSE)
    /\ UNCHANGED <<consecutive_failures, circuit_open, circuit_opened_at_ms,
                   total_forwarded, total_failed, max_retries, circuit_threshold,
                   circuit_reset_secs, inbox, dpc, cur, attempt, success,
                   backoff_ms, now, submitted, httpCount, respLog, okResponses,
                   timesCounted, probeId, sequential>>
    /\ UNCHANGED <<smtpVars, parserVars, serverVars>>

WebhookNext ==
    \/ Submit
    \/ HandleForwardEmail
    \/ \E resp \in Responses : Attempt(resp)
    \/ SendResult
    \/ HandleWebhookResult
    \/ Tick
    \/ Exit

WebhookSpec == WebhookInit /\ [][WebhookNext]_vars

----------------------------------------------------------------------------
(* Properties of the SMTP session (SmtpSpec).                              *)

\* Position of the first occurrence of x in sequence q, 0 when absent.
IndexOf(q, x) ==
    IF \E i \in DOMAIN q : q[i] = x
      THEN CHOOSE i \in DOMAIN q : q[i] = x /\ \A j \in DOMAIN q : q[j] = x => i <= j
      ELSE 0

C2_DataNeedsAcceptedRcpt == state = "Data" => any_accepted

\* C3: every payload handed over has a non-empty recipient that matches
\* target_emails case-insensitively and is an address accepted by a RCPT TO of
\* the same transaction, as the client sent it.
C3_RecipientAllowed ==
    /\ \A i \in DOMAIN payloads :
         payloads[i].recipient # None /\ Allowed(payloads[i].recipient)
    /\ handed > 0 => payloads[Len(payloads)].recipient \in txn_rcpts

C6_HandoffDoesNotBlock == http = "inflight" => pc = "read"

----------------------------------------------------------------------------
(* Properties of the webhook dispatcher (WebhookSpec).                     *)

Quiescent == inbox = <<>> /\ dpc = "idle"

ResetMs == circuit_reset_secs * MsPerSec

\* The circuit is open and the reset period has not yet elapsed, in record r.
OpenWithinWindow(r) ==
    r.circuit_open /\ r.now - r.circuit_opened_at_ms < ResetMs

RECURSIVE SumTo(_, _)
SumTo(f, n) == IF n = 0 THEN 0 ELSE f[n] + SumTo(f, n - 1)

\* C5: while circuit_open is true and less than circuit_breaker_reset_secs have
\* elapsed since circuit_opened_at, no HTTPS attempt starts: none is pending or
\* just made, and a message handled at such a moment starts no delivery.
C5_NoAttemptWhileOpen ==
    /\ OpenWithinWindow(Snapshot) => dpc # "attempt" /\ last.op # "attempt"
    /\ last.op \in {"admit", "half_open"} => ~OpenWithinWindow(last.pre)

C5_Witness ==
    /\ last.op = "drop"
    /\ OpenWithinWindow(Snapshot)
    /\ last.pre.now > last.pre.circuit_opened_at_ms
    /\ httpCount = last.pre.httpCount
    /\ inbox # <<>>

\* C7: total_forwarded + total_failed never exceeds the number of ForwardEmail
\* messages submitted, no message is counted twice, and once every submitted
\* message has been dropped or had its WebhookResult processed the sum equals
\* the number submitted.
C7_CountersMatchSubmissions ==
    /\ total_forwarded + total_failed <= submitted
    /\ \A i \in DOMAIN timesCounted : timesCounted[i] <= 1
    /\ SumTo(timesCounted, MaxSubmit) = total_forwarded + total_failed
    /\ Quiescent => total_forwarded + total_failed = submitted

C7_Witness ==
    /\ Quiescent
    /\ max_retries = 0
    /\ submitted >= 3
    /\ total_forwarded >= 1
    /\ httpCount < submitted
    /\ total_forwarded + total_failed = submitted

\* C8: a message's delivery makes at least one and at most 1 + max_retries
\* HTTPS attempts (exactly one when max_retries = 0); every attempt but the last
\* failed, so no attempt follows a 2xx response.  With max_retries = 3 and the
\* responses 500, 500, 200 there are exactly 3 attempts, total_forwarded = 1
\* and total_failed = 0.
C8_AttemptsBounded ==
    /\ Len(respLog) <= 1 + max_retries
    /\ dpc = "send" => Len(respLog) >= 1
    /\ (dpc = "send" /\ max_retries = 0) => Len(respLog) = 1
    /\ \A i \in 1..(Len(respLog) - 1) : respLog[i] = "fail"
    /\ dpc = "send" => (success <=> respLog[Len(respLog)] = "ok")
    /\ (max_retries = 3 /\ submitted = 1 /\ Quiescent
          /\ respLog = <<"fail", "fail", "ok">>) =>
         httpCount = 3 /\ total_forwarded = 1 /\ total_failed = 0

C8_Witness ==
    /\ max_retries = 3 /\ submitted = 1 /\ Quiescent
    /\ respLog = <<"fail", "fail", "ok">>
    /\ httpCount = 3 /\ total_forwarded = 1 /\ total_failed = 0

\* C9: once consecutive_failures has reached circuit_breaker_threshold the
\* circuit is open, and a message handled while it is open within the reset
\* window is dropped: no HTTPS request, total_failed + 1.  With threshold 3,
\* max_retries 0 and only failing responses, four messages submitted one after
\* the other cause exactly 3 HTTPS requests and total_failed = 4.
C9_BreakerOpensAndDrops ==
    /\ consecutive_failures >= circuit_threshold => circuit_open
    /\ last.op \in {"admit", "half_open"} => ~OpenWithinWindow(last.pre)
    /\ last.op = "drop" =>
         /\ httpCount = last.pre.httpCount
         /\ total_failed = last.pre.total_failed + 1
         /\ dpc = "idle"
    /\ (circuit_threshold = 3 /\ max_retries = 0 /\ okResponses = 0
          /\ sequential /\ submitted = 4 /\ Quiescent
          /\ now - circuit_opened_at_ms < ResetMs) =>
         httpCount = 3 /\ total_failed = 4

C9_Witness ==
    /\ circuit_threshold = 3 /\ max_retries = 0 /\ okResponses = 0
    /\ sequential /\ submitted = 4 /\ Quiescent
    /\ circuit_open
    /\ now - circuit_opened_at_ms < ResetMs
    /\ httpCount = 3 /\ total_failed = 4

\* C10: once the result of the message admitted by the half-open branch has
\* been processed, the circuit is open if its delivery failed and closed if it
\* succeeded, whatever the threshold.
C10_ProbeDecidesCircuit ==
    (last.op = "result" /\ probeId # 0 /\ last.id = probeId) =>
        (circuit_open <=> ~last.ok)

----------------------------------------------------------------------------
(* Properties of the circuit breaker's boundary and of process exit        *)
(* (WebhookSpec).                                                          *)

\* C11: a message handled while the circuit is open is dropped if and only if
\* now - circuit_opened_at is strictly less than circuit_breaker_reset_secs;
\* when the elapsed time equals or exceeds the reset period it is admitted and
\* its delivery starts.
C11_DropIffWithinReset ==
    last.op \in {"drop", "half_open"} =>
        /\ last.pre.circuit_open
        /\ last.op = "drop" <=>
             last.pre.now - last.pre.circuit_opened_at_ms < ResetMs
        /\ last.op = "half_open" => dpc = "attempt" /\ cur = last.id

\* C13: when the process has ended, no delivery is in flight and no
\* WebhookResult waits uncounted: every delivery started before had finished
\* and had its result counted.
C13_DrainBeforeExit ==
    exited =>
        /\ dpc = "idle"
        /\ \A i \in DOMAIN inbox : inbox[i].type # "WebhookResult"

----------------------------------------------------------------------------
(* Properties of the session's replies and transitions (SmtpSpec).         *)

Is503(r) ==
    r \in {R503Greeted, R503MailFrom, R503RcptTo, R503NoEnvelope, R503TlsActive}

\* The step just taken handled a line whose verb is v.
IsVerb(step, v) == step.op = "line" /\ to_uppercase(step.line.verb) = v

Wrote(r) == \E i \in DOMAIN trace : trace[i] = r

\* The verbs the state machine takes in each command state.
VerbsTakenIn(st) ==
    CASE st = "Initial" -> {}
      [] st = "Greeted" -> {"MAIL FROM:", "STARTTLS"}
      [] st = "MailFrom" -> {"RCPT TO:"}
      [] st = "RcptTo" -> {"RCPT TO:", "DATA"}

\* C12: once the client has closed the connection, the session's next read
\* ends the session task, in whatever protocol state, and appends nothing to
\* the message buffer.
C12_EofEndsSession ==
    [][(eof /\ nlines' # nlines) => (pc' = "closed" /\ email_data' = email_data)]_vars

\* C14: DATA received in a transaction (after MAIL FROM) that has no accepted
\* recipient is answered with a 503 reply only, no 354, and leaves the protocol
\* state as it was, so that the following lines are read as commands.
C14_DataWithoutRecipient ==
    (/\ IsVerb(lastLine, "DATA")
     /\ lastLine.pre.state \in {"MailFrom", "RcptTo"}
     /\ lastLine.pre.accepted_recipient = None) =>
        /\ Len(trace) = 1 /\ Is503(trace[1])
        /\ state = lastLine.pre.state

\* C15: a RCPT TO received in MailFrom whose address is not in target_emails is
\* answered 550 and leaves the state MailFrom; the state becomes RcptTo only
\* when the address passes the allow-list.
C15_RejectedRcptStaysMailFrom ==
    (/\ IsVerb(lastLine, "RCPT TO:")
     /\ lastLine.pre.state = "MailFrom"
     /\ extract_email(lastLine.line) # None) =>
        IF Allowed(lastLine.line.arg)
          THEN state = "RcptTo" /\ trace = <<R250>>
          ELSE state = "MailFrom" /\ trace = <<R550>>

\* C16: a RCPT TO that does not match the allow-list is answered with exactly
\* "550 No such user here" and leaves no accepted recipient, also after an
\* earlier RCPT TO was accepted; a payload is handed over only when a
\* recipient has been accepted since.
C16_RejectedRcptClearsRecipient ==
    /\ (/\ IsVerb(lastLine, "RCPT TO:")
        /\ lastLine.pre.state \in {"MailFrom", "RcptTo"}
        /\ extract_email(lastLine.line) # None
        /\ ~Allowed(lastLine.line.arg)) =>
           trace = <<R550>> /\ accepted_recipient = None
    /\ (handed > 0 /\ lastLine.op = "line") =>
           lastLine.pre.accepted_recipient # None

\* C17: in Initial, Greeted, MailFrom and RcptTo, a STARTTLS, MAIL FROM,
\* RCPT TO or DATA that the state does not take is answered with a 503 reply,
\* and a line whose verb is no SMTP command is answered with a 500 reply.
C17_WrongStateIs503 ==
    (lastLine.op = "line" /\ lastLine.pre.state # "Data") =>
        LET v == to_uppercase(lastLine.line.verb) IN
        /\ v \in {"STARTTLS", "MAIL FROM:", "RCPT TO:", "DATA"}
                \ VerbsTakenIn(lastLine.pre.state) =>
             (trace # <<>> /\ \A i \in DOMAIN trace : Is503(trace[i]))
        /\ v = "NOOP" => trace = <<R500>>

\* C18: STARTTLS is answered 220 and the TLS handshake started only in state
\* Greeted; in Initial, MailFrom and RcptTo it is rejected with one 5xx reply,
\* the state is unchanged and no handshake starts; in Data it is a data line.
C18_StartTlsOnlyInGreeted ==
    /\ (pc = "handshake" \/ (lastLine.op = "line" /\ Wrote(R220GoAhead))) =>
         (IsVerb(lastLine, "STARTTLS") /\ lastLine.pre.state = "Greeted")
    /\ (IsVerb(lastLine, "STARTTLS") /\ lastLine.pre.state = "Greeted"
           /\ lastLine.pre.phase = "plain") =>
         (pc = "handshake" /\ trace = <<R220GoAhead>>)
    /\ (IsVerb(lastLine, "STARTTLS")
           /\ lastLine.pre.state \in {"Initial", "MailFrom", "RcptTo"}) =>
         /\ state = lastLine.pre.state
         /\ phase = lastLine.pre.phase
         /\ pc = "read"
         /\ Len(trace) = 1 /\ trace[1] \in {R500, R503MailFrom, R503RcptTo}
    /\ (IsVerb(lastLine, "STARTTLS") /\ lastLine.pre.state = "Data") =>
         /\ state = "Data"
         /\ pc = "read"
         /\ trace = <<>>
         /\ email_data = IF lastLine.pre.collecting_data
                            THEN Append(lastLine.pre.email_data, lastLine.line)
                            ELSE lastLine.pre.email_data

C18_Witness ==
    /\ IsVerb(lastLine, "STARTTLS")
    /\ lastLine.pre.state = "RcptTo"
    /\ state = "RcptTo"
    /\ trace = <<R503RcptTo>>
    /\ pc = "read"

\* C19: after a successful handshake the session on the TLS stream is in
\* Initial with an empty envelope; there MAIL FROM, RCPT TO and DATA are
\* rejected and only HELO/EHLO leaves Initial; a payload handed over on the TLS
\* stream holds no sender, recipient or data received before the upgrade.
C19_FreshSessionAfterUpgrade ==
    /\ lastLine.op = "handshake" =>
         /\ phase = "tls" /\ state = "Initial"
         /\ sender = None /\ accepted_recipient = None
         /\ email_data = <<>> /\ ~collecting_data
    /\ (phase = "tls" /\ lastLine.op = "line" /\ lastLine.pre.state = "Initial") =>
         /\ to_uppercase(lastLine.line.verb) \in {"MAIL FROM:", "RCPT TO:", "DATA"} =>
              /\ state = "Initial"
              /\ trace = <<R500>>
              /\ sender = None /\ accepted_recipient = None /\ handed = 0
         /\ state # "Initial" =>
              to_uppercase(lastLine.line.verb) \in {"HELO", "EHLO"}
    /\ (phase = "tls" /\ handed > 0) => stale = {}

C19_Witness ==
    /\ phase = "tls"
    /\ IsVerb(lastLine, "MAIL FROM:")
    /\ lastLine.pre.phase = "tls"
    /\ lastLine.pre.state = "Initial"
    /\ state = "Initial"
    /\ trace = <<R500>>

\* C20: a STARTTLS received in a command state of the session on the TLS
\* stream is answered with "503 STARTTLS already active" and nothing else, and
\* no second handshake starts.
C20_StartTlsInTlsSession ==
    (/\ IsVerb(lastLine, "STARTTLS")
     /\ lastLine.pre.phase = "tls"
     /\ lastLine.pre.state # "Data") =>
        trace = <<R503TlsActive>> /\ pc = "read"

----------------------------------------------------------------------------
(* Properties of the DATA phase and of the envelope (SmtpSpec).            *)

EnvelopeEmpty == sender = None /\ accepted_recipient = None /\ email_data = <<>>

\* The body lines as the buffer should hold them.
AsBuffer(body) == [i \in DOMAIN body |-> Line(body[i], None)]

\* C21: after an end-of-data line the protocol state is Greeted and, when the
\* session reads its next line, the envelope is empty; from Greeted only
\* MAIL FROM opens a transaction; a payload holds no sender, recipient or data
\* received before the previous end of data.
C21_EnvelopeResetAfterData ==
    /\ (IsVerb(lastLine, ".") /\ lastLine.pre.state = "Data") =>
         /\ state = "Greeted"
         /\ pc = "read" => EnvelopeEmpty
    /\ lastLine.op \in {"forward_ok", "forward_err"} =>
         state = "Greeted" /\ EnvelopeEmpty
    /\ (lastLine.op = "line" /\ lastLine.pre.state = "Greeted"
          /\ state # "Greeted") =>
         IsVerb(lastLine, "MAIL FROM:") /\ state = "MailFrom"
    /\ handed > 0 => carried = {}

C21_Witness ==
    /\ handed = 1
    /\ Len(payloads) = 2
    /\ payloads[1].data # <<>>
    /\ payloads[2].data = <<>>
    /\ carried = {}

\* C22: a payload's data is the body the client sent: each dot-stuffed line
\* has lost its added leading '.', and the terminator is not part of it.
C22_DotUnstuffing ==
    handed > 0 => payloads[Len(payloads)].data = AsBuffer(sent_body)

\* C23: in Data every line other than '.' (also QUIT and STARTTLS) is a data
\* line: no reply, the state stays Data, the session goes on and the line is
\* appended when data is being collected; only '.' leaves Data.
C23_DataLinesAreData ==
    /\ (lastLine.op = "line" /\ lastLine.pre.state = "Data") =>
         IF lastLine.line.verb = "."
           THEN state = "Greeted"
           ELSE /\ state = "Data"
                /\ trace = <<>>
                /\ pc = "read"
                /\ email_data = IF lastLine.pre.collecting_data
                                  THEN Append(lastLine.pre.email_data, lastLine.line)
                                  ELSE lastLine.pre.email_data
    /\ (lastLine.op = "line" /\ lastLine.pre.state = "Data" /\ state # "Data") =>
         lastLine.line.verb = "."

C23_Witness ==
    /\ lastLine.op = "line"
    /\ lastLine.line.verb = "QUIT"
    /\ lastLine.pre.state = "Data"
    /\ lastLine.pre.collecting_data
    /\ state = "Data"
    /\ trace = <<>>
    /\ email_data = Append(lastLine.pre.email_data, lastLine.line)

\* C24: a line received in a state other than Data leaves the message buffer
\* as it was; the buffer grows only by a line received in Data.
C24_BufferGrowsOnlyInData ==
    /\ (lastLine.op = "line" /\ lastLine.pre.state # "Data") =>
         email_data = lastLine.pre.email_data
    /\ (lastLine.op = "line"
          /\ Len(email_data) > Len(lastLine.pre.email_data)) =>
         lastLine.pre.state = "Data"

C24_Witness ==
    /\ lastLine.op = "line"
    /\ lastLine.pre.state = "Data"
    /\ Len(lastLine.pre.email_data) = 1
    /\ email_data = Append(lastLine.pre.email_data, lastLine.line)

\* C25: when the delivery of a message ends, whether it succeeded or failed,
\* the session writes no reply, stays open and is back at its read in the same
\* state with an empty envelope: the replies do not depend on the outcome.
C25_DeliveryOutcomeHidden ==
    /\ lastLine.op \in {"forward_ok", "forward_err"} =>
         /\ pc = "read"
         /\ ended = ""
         /\ trace = <<R250Accepted, Handoff>>
         /\ phase = lastLine.pre.phase
         /\ state = lastLine.pre.state
         /\ EnvelopeEmpty
         /\ ~collecting_data
         /\ http = "idle"
    /\ http = "inflight" => ended = ""

C25_Witness ==
    /\ lastLine.op = "forward_err"
    /\ pc = "read"
    /\ ended = ""
    /\ state = "Greeted"

----------------------------------------------------------------------------
(* Properties of the dispatcher's counters and backoff (WebhookSpec).      *)

\* Index of the request the retry loop has just made (0 is the first try).
RequestIndex == Len(respLog) - 1

\* C26: right after the result of a successful delivery has been processed,
\* consecutive_failures = 0 and total_forwarded has grown by exactly 1,
\* whatever failures came before.
C26_SuccessResetsFailures ==
    (last.op = "result" /\ last.ok) =>
        /\ consecutive_failures = 0
        /\ total_forwarded = last.pre.total_forwarded + 1
        /\ total_failed = last.pre.total_failed

C26_Witness ==
    /\ last.op = "result" /\ last.ok
    /\ last.pre.consecutive_failures = 2
    /\ last.pre.total_failed = 2
    /\ consecutive_failures = 0
    /\ total_forwarded = last.pre.total_forwarded + 1

\* C27: the result of a delivery that failed on all its attempts adds exactly
\* 1 to total_failed and exactly 1 to consecutive_failures, however many
\* requests were made; a request by itself changes no counter, and the result
\* of a delivery that succeeded after failed requests adds nothing to either.
C27_OneFailurePerMessage ==
    /\ (last.op = "result" /\ ~last.ok) =>
         /\ total_failed = last.pre.total_failed + 1
         /\ consecutive_failures = last.pre.consecutive_failures + 1
         /\ total_forwarded = last.pre.total_forwarded
    /\ last.op \in {"attempt", "send"} =>
         /\ total_failed = last.pre.total_failed
         /\ consecutive_failures = last.pre.consecutive_failures
         /\ total_forwarded = last.pre.total_forwarded
    /\ (last.op = "result" /\ last.ok) =>
         /\ total_failed = last.pre.total_failed
         /\ consecutive_failures <= last.pre.consecutive_failures

C27_Witness ==
    /\ last.op = "result" /\ ~last.ok
    /\ max_retries = MaxRetriesCfg
    /\ submitted = 1
    /\ httpCount = 1 + MaxRetriesCfg
    /\ total_failed = 1
    /\ consecutive_failures = 1

\* C28 (as stated): the first try has no delay and the wait before retry
\* attempt n (n >= 1) is 100 ms x 2^n.
C28_BackoffDoubling ==
    last.op = "attempt" =>
        backoff_ms = IF RequestIndex = 0 THEN 0 ELSE 100 * 2 ^ RequestIndex

\* C28 (amended): the first try has no delay and the wait before retry
\* attempt n (n >= 1) is 100 ms x 2^(n-1): 100 ms, 200 ms, 400 ms, ...
C28_BackoffFromHundred ==
    last.op = "attempt" =>
        backoff_ms = IF RequestIndex = 0 THEN 0 ELSE 100 * 2 ^ (RequestIndex - 1)

C28_Witness ==
    /\ last.op = "attempt"
    /\ RequestIndex = 2
    /\ backoff_ms = 200

----------------------------------------------------------------------------
(* The MIME parser (src/smtp/email_parser.rs) and the payload's JSON form  *)
(* (src/webhook/mod.rs).  Option values are sequences: None is <<>> and     *)
(* Some(x) is <<x>>.                                                       *)

Some(x) == <<x>>

\* A ParsedMail: its mimetype, its body as sent, its subparts.
Part(mimetype, body, subparts) ==
    [mimetype |-> mimetype, body |-> body, subparts |-> subparts]

LeafParts ==
    { Part("text/plain", b, <<>>) : b \in {"p1", "p2", "undecodable"} }
      \cup { Part("text/html", b, <<>>) : b \in {"<p>a</p>", "<deep>"} }
      \cup { Part("image/png", "img", <<>>) }

\* Sequences of up to n of the given parts.
RECURSIVE PartSeqs(_, _)
PartSeqs(parts, n) ==
    IF n = 0 THEN { <<>> }
    ELSE PartSeqs(parts, n - 1)
           \cup { Append(q, x) : q \in { r \in PartSeqs(parts, n - 1) : Len(r) = n - 1 },
                                 x \in parts }

\* multipart/alternative containers of leaves, the empty one included.
AlternativeParts ==
    { Part("multipart/alternative", "", q) : q \in PartSeqs(LeafParts, MaxSubparts) }

\* multipart/mixed containers holding a leaf and another part, in either order.
MixedParts ==
    { Part("multipart/mixed", "", <<a, b>>) :
        a \in LeafParts, b \in LeafParts \cup AlternativeParts }
      \cup { Part("multipart/mixed", "", <<b, a>>) :
               a \in LeafParts, b \in AlternativeParts }

\* The messages parsed: well-formed ones with their Subject and From display
\* name, and one that mailparse::parse_mail rejects.
Mails ==
    { [wellformed |-> TRUE, root |-> r, subject |-> h[1], from_name |-> h[2]] :
        r \in LeafParts \cup AlternativeParts \cup MixedParts,
        h \in { <<"Hi", None>>, <<"", Some("Al")>> } }
      \cup { [wellformed |-> FALSE, root |-> Part("text/plain", "", <<>>),
              subject |-> "", from_name |-> None] }

Result(ok, value) == [ok |-> ok, value |-> value]

\* part.get_body(): the decoded content, or Err.
get_body(part) ==
    IF part.body = "undecodable" THEN Result(FALSE, "") ELSE Result(TRUE, part.body)

\* html2text::from_read(html.as_bytes(), 80): the rendered text, or Err.
html2text(html) ==
    CASE html = "<p>a</p>" -> Result(TRUE, "a")
      [] OTHER -> Result(FALSE, "")

RECURSIVE process_mail_part(_, _)
RECURSIVE ProcessSubparts(_, _, _)

\* The loop over part.subparts, from subpart i on.
ProcessSubparts(subparts, i, acc) ==
    IF i > Len(subparts) THEN acc
    ELSE IF acc.text_body # None /\ acc.html_body # None THEN acc
    ELSE LET a == process_mail_part(subparts[i], acc) IN
         IF a.err THEN a ELSE ProcessSubparts(subparts, i + 1, a)

process_mail_part(part, acc) ==
    IF part.subparts = <<>>
      THEN IF part.mimetype = "text/plain" /\ acc.text_body = None
             THEN IF get_body(part).ok
                    THEN [acc EXCEPT !.text_body = Some(get_body(part).value)]
                    ELSE [acc EXCEPT !.err = TRUE]
           ELSE IF part.mimetype = "text/html" /\ acc.html_body = None
             THEN IF get_body(part).ok
                    THEN [acc EXCEPT !.html_body = Some(get_body(part).value)]
                    ELSE [acc EXCEPT !.err = TRUE]
           ELSE acc
      ELSE ProcessSubparts(part.subparts, 1, acc)

\* A variant that prefers the text/plain part, as the doc comment of parse says.
FinalTextPrefersPlain(text_body, html_body) ==
    IF text_body # None THEN text_body[1]
    ELSE IF html_body # None /\ html2text(html_body[1]).ok
      THEN html2text(html_body[1]).value
    ELSE ""

\* let final_text_body = ...
final_text_body(text_body, html_body) ==
    IF html_body # None
      THEN IF html2text(html_body[1]).ok
             THEN html2text(html_body[1]).value
             ELSE IF text_body # None THEN text_body[1] ELSE ""
    ELSE IF text_body # None THEN text_body[1]
    ELSE ""

ParseErr ==
    [ok |-> FALSE, subject |-> "", from_name |-> None, text_body |-> "",
     html_body |-> None]

\* EmailParser::parse
parse(m) ==
    IF ~m.wellformed THEN ParseErr
    ELSE LET acc == process_mail_part(m.root,
                        [text_body |-> None, html_body |-> None, err |-> FALSE])
         IN IF acc.err THEN ParseErr
            ELSE [ok |-> TRUE,
                  subject |-> m.subject,
                  from_name |-> m.from_name,
                  text_body |-> final_text_body(acc.text_body, acc.html_body),
                  html_body |-> acc.html_body]

Member(key, type, value) == [key |-> key, type |-> type, value |-> value]

\* #[serde(skip_serializing_if = "Option::is_none")]
OptionalMember(key, type, field) ==
    IF field = None THEN {} ELSE { Member(key, type, field[1]) }

\* A variant whose optional fields are serialised without skip_serializing_if.
SerializeWithNulls(p) ==
    { Member("sender", "string", p.sender),
      Member("recipient", "string", p.recipient),
      Member("subject", "string", p.subject),
      Member("body", "string", p.body) }
      \cup (IF p.sender_name = None THEN { Member("sender_name", "null", "") }
            ELSE { Member("sender_name", "string", p.sender_name[1]) })
      \cup (IF p.html_body = None THEN { Member("html_body", "null", "") }
            ELSE { Member("html_body", "string", p.html_body[1]) })
      \cup (IF p.headers = None THEN { Member("headers", "null", "") }
            ELSE { Member("headers", "object", p.headers[1]) })

\* serde_json::to_string(&email) by #[derive(Serialize)] on EmailPayload
Serialize(p) ==
    { Member("sender", "string", p.sender),
      Member("recipient", "string", p.recipient),
      Member("subject", "string", p.subject),
      Member("body", "string", p.body) }
      \cup OptionalMember("sender_name", "string", p.sender_name)
      \cup OptionalMember("html_body", "string", p.html_body)
      \cup OptionalMember("headers", "object", p.headers)

\* The header maps a payload may carry: none, or one matched header.
HeaderMaps == { None, Some("X-Custom-Id: abc123") }

ParserInit ==
    /\ SessionStart
    /\ HookIdle
    /\ ServerUnused
    /\ max_retries = 0
    /\ circuit_threshold = 1
    /\ circuit_reset_secs = 1
    /\ mail \in Mails
    /\ parsed = <<>>
    /\ payload = <<>>
    /\ json = {}
    /\ pstage = "raw"

\* EmailParser::parse(email_data.as_bytes())
Parse ==
    /\ pstage = "raw"
    /\ parsed' = parse(mail)
    /\ pstage' = "parsed"
    /\ UNCHANGED <<mail, payload, json>>
    /\ UNCHANGED <<smtpVars, hookVars, serverVars>>

\* let email_payload = EmailPayload { ... }, after a successful parse.
BuildPayload(headers) ==
    /\ pstage = "parsed"
    /\ parsed.ok
    /\ payload' = [sender |-> "o@x",
                   sender_name |-> parsed.from_name,
                   recipient |-> "t@x",
                   subject |-> parsed.subject,
                   body |-> parsed.text_body,
                   html_body |-> parsed.html_body,
                   headers |-> headers]
    /\ pstage' = "built"
    /\ UNCHANGED <<mail, parsed, json>>
    /\ UNCHANGED <<smtpVars, hookVars, serverVars>>

\* let json_body = serde_json::to_string(&email)?
SerializePayload ==
    /\ pstage = "built"
    /\ json' = Serialize(payload)
    /\ pstage' = "serialized"
    /\ UNCHANGED <<mail, parsed, payload>>
    /\ UNCHANGED <<smtpVars, hookVars, serverVars>>

ParserNext ==
    \/ Parse
    \/ \E headers \in HeaderMaps : BuildPayload(headers)
    \/ SerializePayload

ParserSpec == ParserInit /\ [][ParserNext]_vars

----------------------------------------------------------------------------
(* Properties of the parser and of the JSON form (ParserSpec).             *)

\* The leaves of a part, in the order a depth-first walk meets them.
RECURSIVE Leaves(_)
RECURSIVE LeavesOfSeq(_)
LeavesOfSeq(q) == IF q = <<>> THEN <<>> ELSE Leaves(Head(q)) \o LeavesOfSeq(Tail(q))

Leaves(part) == IF part.subparts = <<>> THEN <<part>> ELSE LeavesOfSeq(part.subparts)

\* Some(content of the first leaf of the given mimetype), or None.
FirstContent(part, mimetype) ==
    LET l == Leaves(part)
        hits == { i \in DOMAIN l : l[i].mimetype = mimetype }
    IN IF hits = {} THEN None
       ELSE Some(l[CHOOSE i \in hits : \A j \in hits : i <= j].body)

Parsed == pstage \in {"parsed", "built", "serialized"} /\ parsed.ok

Keys(members) == { m.key : m \in members }

\* C30: the JSON object has the keys sender, recipient, subject and body, has
\* sender_name, html_body and headers exactly when the field is set, has no
\* other key and no null value.
C30_JsonKeys ==
    pstage = "serialized" =>
        /\ {"sender", "recipient", "subject", "body"} \subseteq Keys(json)
        /\ Keys(json) \subseteq {"sender", "recipient", "subject", "body",
                                 "sender_name", "html_body", "headers"}
        /\ "sender_name" \in Keys(json) <=> payload.sender_name # None
        /\ "html_body" \in Keys(json) <=> payload.html_body # None
        /\ "headers" \in Keys(json) <=> payload.headers # None
        /\ \A m \in json : m.type # "null"

C30_Witness ==
    /\ pstage = "serialized"
    /\ payload.sender_name = None
    /\ payload.html_body = None
    /\ payload.headers = None
    /\ payload.subject = "Hi"
    /\ Keys(json) = {"sender", "recipient", "subject", "body"}

----------------------------------------------------------------------------
(* The two session handlers side by side (SmtpSpec).                       *)

\* What one turn of a handler's loop shows: the replies written, the protocol
\* state left, the payloads passed to forward_email, and how the task goes on
\* ("read" the next line, start the "handshake", or return "ok" / "err").
Turn(wrote, st, handedOver, goes) ==
    [wrote |-> wrote, state |-> st, handedOver |-> handedOver, goes |-> goes]

\* One turn of handle_connection's loop on line, from the session s.
PlainTurn(s, line) ==
    IF EndOfStream(s.state, line)
      THEN Turn(<<>>, s.state, <<>>, "ok")
      ELSE
        LET o == process_command(s.state, line) IN
        CASE o.result = "Quit" -> Turn(o.wrote, o.state, <<>>, "ok")
          [] o.result = "StartTls" -> Turn(o.wrote, o.state, <<>>, "handshake")
          [] o.result = "RcptTo" ->
               Turn(o.wrote \o <<IF Allowed(o.value) THEN R250 ELSE R550>>,
                    o.state, <<>>, "read")
          [] o.result = "DataStart" ->
               IF s.sender = None \/ s.accepted_recipient = None
                 THEN Turn(o.wrote \o <<R503NoEnvelope>>, o.state, <<>>, "read")
                 ELSE Turn(o.wrote, o.state, <<>>, "read")
          [] o.result = "DataEnd" ->
               IF s.sender = None \/ s.accepted_recipient = None
                 THEN Turn(o.wrote, o.state, <<>>, "read")
               ELSE IF ParseOk(s.email_data)
                 THEN Turn(o.wrote, o.state,
                           <<EmailPayload(s.sender, s.accepted_recipient,
                                          s.email_data)>>, "read")
               ELSE Turn(o.wrote, o.state, <<>>, "read")
          [] OTHER -> Turn(o.wrote, o.state, <<>>, "read")

\* One turn of handle_secure_session's loop on line, from the session s.
TlsTurn(s, line) ==
    IF EndOfStream(s.state, line)
      THEN Turn(<<>>, s.state, <<>>, "ok")
      ELSE
        LET o == process_command(s.state, line) IN
        CASE o.result = "Quit" -> Turn(o.wrote, o.state, <<>>, "ok")
          [] o.result = "StartTls" ->
               Turn(o.wrote \o <<R503TlsActive>>, o.state, <<>>, "read")
          [] o.result = "RcptTo" ->
               Turn(o.wrote \o <<IF Allowed(o.value) THEN R250 ELSE R550>>,
                    o.state, <<>>, "read")
          [] o.result = "DataEnd" ->
               IF ParseOk(s.email_data)
                 THEN Turn(o.wrote, o.state,
                           <<EmailPayload(s.sender, s.accepted_recipient,
                                          s.email_data)>>, "read")
                 ELSE Turn(o.wrote, o.state, <<>>, "err")
          [] OTHER -> Turn(o.wrote, o.state, <<>>, "read")

\* The replies in trace, without the handoff marker.
Replies == SelectSeq(trace, LAMBDA r : r # Handoff)

\* The turn the running handler has just taken, as the session shows it.
TurnTaken ==
    Turn(Replies,
         state,
         SubSeq(payloads, Len(payloads) - handed + 1, Len(payloads)),
         IF pc = "closed" THEN ended
         ELSE IF pc = "handshake" THEN "handshake"
         ELSE "read")

\* The turn taken is the running handler's.
TurnIsHandlers ==
    lastLine.op = "line" =>
        TurnTaken = IF lastLine.pre.phase = "plain"
                      THEN PlainTurn(lastLine.pre, lastLine.line)
                      ELSE TlsTurn(lastLine.pre, lastLine.line)

\* C31: on a line other than STARTTLS, from the same session state (protocol
\* state and envelope), the plaintext handler and the TLS handler write the
\* same replies, leave the same protocol state, hand over the same payloads and
\* take the same decision to go on or to end the session; so whichever handler
\* ran, its turn is also the other one's.
C31_HandlersAgree ==
    (lastLine.op = "line" /\ ~IsVerb(lastLine, "STARTTLS")) =>
        /\ TurnTaken = PlainTurn(lastLine.pre, lastLine.line)
        /\ TurnTaken = TlsTurn(lastLine.pre, lastLine.line)

----------------------------------------------------------------------------
(* Properties of the protocol state's transitions (SmtpSpec).              *)

\* A 500, 501 or 503 reply.
IsRejection(r) == r \in {R500, R501Mail, R501Rcpt} \/ Is503(r)

\* C32: a command answered with a 500, 501 or 503 reply in a state other than
\* Data leaves the protocol state as it was; the state changes only on a
\* HELO/EHLO, MAIL FROM, RCPT TO or DATA that is accepted (answered with no
\* 5xx reply), and in Data only on the end-of-data line.
C32_RejectedLeavesState ==
    lastLine.op = "line" =>
        /\ (lastLine.pre.state # "Data" /\ \E i \in DOMAIN trace : IsRejection(trace[i])) =>
             state = lastLine.pre.state
        /\ (lastLine.pre.state # "Data" /\ state # lastLine.pre.state) =>
             /\ to_uppercase(lastLine.line.verb) \in
                  {"HELO", "EHLO", "MAIL FROM:", "RCPT TO:", "DATA"}
             /\ \A i \in DOMAIN trace : ~IsRejection(trace[i]) /\ trace[i] # R550
        /\ (lastLine.pre.state = "Data" /\ state # "Data") =>
             lastLine.line.verb = "."

\* C33: HELO or EHLO received in Greeted is answered with a 250 reply and
\* leaves the state Greeted.
C33_HeloInGreeted ==
    (/\ lastLine.op = "line"
     /\ lastLine.pre.state = "Greeted"
     /\ to_uppercase(lastLine.line.verb) \in {"HELO", "EHLO"}) =>
        /\ state = "Greeted"
        /\ trace \in { <<R250Helo>>, <<R250EhloGreets, R250StartTls>> }

\* The transitions of SmtpState.
Edges ==
    { <<"Initial", "Greeted">>, <<"Greeted", "MailFrom">>, <<"MailFrom", "RcptTo">>,
      <<"RcptTo", "Data">>, <<"Data", "Greeted">> }

\* C37: on one stream the protocol state changes only along Initial->Greeted,
\* Greeted->MailFrom, MailFrom->RcptTo, RcptTo->Data and Data->Greeted; so a
\* transaction in MailFrom or RcptTo gets back to Greeted only through Data,
\* and the state never returns to Initial.
C37_TransitionsFollowEdges ==
    [][(phase' = phase /\ state' # state) => <<state, state'>> \in Edges]_vars

C37_Witness ==
    /\ state = "MailFrom"
    /\ lastLine.pre.state = "Greeted"
    /\ Len(payloads) = 1
    /\ phase = "plain"

\* C38: when several RCPT TO commands were accepted in the transaction, the
\* end-of-data line hands over one payload and it carries the address of the
\* most recently accepted one.
C38_LastAcceptedRecipient ==
    (/\ lastLine.op = "line"
     /\ lastLine.pre.state = "Data" /\ lastLine.line.verb = "."
     /\ Cardinality(txn_rcpts) >= 2
     /\ handed > 0) =>
        /\ handed = 1
        /\ payloads[Len(payloads)].recipient = last_accepted

\* C39: in a state other than Data an empty line ends the session: the task
\* returns Ok, no reply is written and no payload is handed over.
C39_EmptyLineEndsSession ==
    (/\ lastLine.op = "line"
     /\ lastLine.line.verb = ""
     /\ lastLine.pre.state # "Data") =>
        /\ pc = "closed" /\ ended = "ok"
        /\ trace = <<>>
        /\ handed = 0
        /\ state = lastLine.pre.state

C39_Witness ==
    /\ lastLine.op = "line"
    /\ lastLine.line.verb = ""
    /\ lastLine.pre.state = "RcptTo"
    /\ lastLine.pre.accepted_recipient # None
    /\ ~eof
    /\ pc = "closed"
    /\ trace = <<>>
    /\ payloads = <<>>

----------------------------------------------------------------------------
(* The SMTP server's accept loop (Server::run in src/smtp/mod.rs).  Every  *)
(* accepted connection gets a task of its own that runs handle_connection; *)
(* the task logs the Err its session returns.                              *)

\* Ways a session returns Err: a read or write fails, the TLS handshake
\* fails, EmailParser::parse fails on the TLS stream.
SessionErrors == {"io", "tls", "parse"}

SessionFailures == Cardinality({ i \in Conns : conns[i] = "err" })

\* Failures so far: of accept() and of sessions.
Failures == accept_errors + SessionFailures

ServerInit ==
    /\ SessionStart
    /\ HookIdle
    /\ ParserUnused
    /\ max_retries = 0
    /\ circuit_threshold = 1
    /\ circuit_reset_secs = 1
    /\ listening = TRUE
    /\ conns = [i \in Conns |-> "none"]
    /\ answered = [i \in Conns |-> 0]
    /\ accept_errors = 0
    /\ born = [i \in Conns |-> 0]

\* A variant that leaves the loop on an accept error, as `?` would.
OnAcceptErrorReturn(l) == FALSE

\* Err(e) => error!("Error accepting connection: {:?}", e): the loop goes on.
OnAcceptError(l) == l

\* Ok((stream, remote_addr)) => tokio::spawn(handle_connection(...))
AcceptOk ==
    /\ listening
    /\ \E i \in Conns :
         /\ conns[i] = "none"
         /\ \A j \in Conns : j < i => conns[j] # "none"
         /\ conns' = [conns EXCEPT ![i] = "running"]
         /\ born' = [born EXCEPT ![i] = Failures]
    /\ UNCHANGED <<listening, answered, accept_errors>>
    /\ UNCHANGED <<smtpVars, hookVars, parserVars>>

\* listener.accept() returns Err.
AcceptErr ==
    /\ listening
    /\ accept_errors < MaxAcceptErrors
    /\ accept_errors' = accept_errors + 1
    /\ listening' = OnAcceptError(listening)
    /\ UNCHANGED <<conns, answered, born>>
    /\ UNCHANGED <<smtpVars, hookVars, parserVars>>

\* One turn of a session's loop: a line is read and answered.
Answer(i) ==
    /\ listening
    /\ conns[i] = "running"
    /\ answered[i] < MaxCommands
    /\ answered' = [answered EXCEPT ![i] = @ + 1]
    /\ UNCHANGED <<listening, conns, accept_errors, born>>
    /\ UNCHANGED <<smtpVars, hookVars, parserVars>>

\* The session returns Ok(()): QUIT or end of stream.
SessionEnds(i) ==
    /\ listening
    /\ conns[i] = "running"
    /\ conns' = [conns EXCEPT ![i] = "ok"]
    /\ UNCHANGED <<listening, answered, accept_errors, born>>
    /\ UNCHANGED <<smtpVars, hookVars, parserVars>>

\* The session returns Err; its task logs it and ends.
SessionFails(i, e) ==
    /\ listening
    /\ conns[i] = "running"
    /\ e \in SessionErrors
    /\ conns' = [conns EXCEPT ![i] = "err"]
    /\ UNCHANGED <<listening, answered, accept_errors, born>>
    /\ UNCHANGED <<smtpVars, hookVars, parserVars>>

ServerNext ==
    \/ AcceptOk
    \/ AcceptErr
    \/ \E i \in Conns : Answer(i)
    \/ \E i \in Conns : SessionEnds(i)
    \/ \E i \in Conns, e \in SessionErrors : SessionFails(i, e)

ServerSpec == ServerInit /\ [][ServerNext]_vars

\* The step is a failure: of accept(), or of a session.
FailureStep ==
    \/ accept_errors' # accept_errors
    \/ \E i \in Conns : conns[i] # "err" /\ conns'[i] = "err"

\* C34: the accept loop never stops, and a step in which accept() fails or a
\* session returns an error changes nothing of any other session: the loop is
\* still running, and every other session is still running if it was and has
\* the answers it had.
C34_FailuresAreContained ==
    /\ []listening
    /\ [][FailureStep =>
            /\ listening'
            /\ answered' = answered
            /\ \A j \in Conns : conns'[j] # conns[j] => conns'[j] = "err"
            /\ Cardinality({ j \in Conns : conns'[j] # conns[j] }) <= 1]_vars

\* A session accepted after an accept error and a session failure has had its
\* commands answered.
C34_Witness ==
    /\ accept_errors >= 1
    /\ SessionFailures >= 1
    /\ \E j \in Conns :
         /\ conns[j] = "running"
         /\ born[j] >= 2
         /\ answered[j] = MaxCommands

----------------------------------------------------------------------------
(* Properties of the circuit breaker's fields (WebhookSpec).               *)

\* C35: whenever circuit_open is true, consecutive_failures is at least
\* circuit_breaker_threshold.
C35_OpenImpliesThreshold ==
    circuit_open => consecutive_failures >= circuit_threshold

\* C40: handling a submission that is dropped because the circuit is open adds
\* 1 to total_failed and changes nothing else: consecutive_failures,
\* circuit_open, circuit_opened_at and total_forwarded are as before, no HTTPS
\* request is made, no delivery starts and no WebhookResult for the message is
\* put in the inbox.
C40_DropChangesOnlyTotalFailed ==
    last.op = "drop" =>
        /\ total_failed = last.pre.total_failed + 1
        /\ consecutive_failures = last.pre.consecutive_failures
        /\ circuit_open = last.pre.circuit_open
        /\ circuit_opened_at_ms = last.pre.circuit_opened_at_ms
        /\ total_forwarded = last.pre.total_forwarded
        /\ httpCount = last.pre.httpCount
        /\ dpc = "idle"
        /\ \A i \in DOMAIN inbox :
             ~(inbox[i].type = "WebhookResult" /\ inbox[i].id = last.id)

C40_Witness ==
    /\ last.op = "drop"
    /\ max_retries = MaxRetriesCfg
    /\ circuit_threshold = MaxThresholdCfg
    /\ consecutive_failures = circuit_threshold
    /\ total_failed = circuit_threshold + 1
    /\ total_forwarded = 0
    /\ httpCount = circuit_threshold * (1 + max_retries)

----------------------------------------------------------------------------
(* The dispatcher with its mailbox's capacity (MailboxSpec).  The actor's   *)
(* mailbox is a bounded channel of the actor runtime: handle.send(..).await *)
(* completes when the channel has room and waits otherwise.  WebhookSpec    *)
(* leaves the capacity out, which adds behaviours and removes none, so its  *)
(* invariants hold here too.  The actor's task and the tasks that send to   *)
(* it are scheduled fairly by the runtime, and every HTTPS request ends,    *)
(* by its timeout at the latest.                                           *)

MailboxHasRoom == Len(inbox) < InboxCapacity

MailboxInit ==
    /\ SessionUnused
    /\ HookIdle
    /\ ParserUnused
    /\ ServerUnused
    /\ max_retries = 0
    /\ circuit_threshold = MaxThresholdCfg
    /\ circuit_reset_secs = ResetSecsCfg

\* handle.send(ForwardEmail { payload }).await by a client of the actor.
SubmitBounded == MailboxHasRoom /\ Submit

\* self_handle.send(WebhookResult { .. }).await at the end of the delivery.
SendResultBounded == MailboxHasRoom /\ SendResult

MailboxNext ==
    \/ SubmitBounded
    \/ HandleForwardEmail
    \/ \E resp \in Responses : Attempt(resp)
    \/ SendResultBounded
    \/ HandleWebhookResult

MailboxSpec ==
    /\ MailboxInit
    /\ [][MailboxNext]_vars
    /\ WF_vars(HandleForwardEmail)
    /\ WF_vars(\E resp \in Responses : Attempt(resp))
    /\ WF_vars(SendResultBounded)
    /\ WF_vars(HandleWebhookResult)

\* C36: whatever is queued in the inbox while a delivery is in progress, the
\* delivery's WebhookResult is eventually put in the inbox and processed: every
\* message whose delivery has started is eventually counted as forwarded or
\* failed.
C36_AdmittedEventuallyCounted ==
    \A id \in 1..MaxSubmit :
        (cur = id /\ dpc # "idle") ~> (timesCounted[id] = 1)

====
